---- MODULE Spec2Model ----
(***************************************************************************)
(* A model of app.py, the Streamlit e-commerce dashboard.                  *)
(*                                                                         *)
(* The script loads a CSV once (load_data), reads four sidebar filters and *)
(* a section selector, builds df_filtered and renders the selected         *)
(* section.  Every widget interaction re-runs the script from the top with *)
(* the new widget values; each action below is one such run.               *)
(*                                                                         *)
(* Representation.  A timestamp is a number of hours since 1970-01-01      *)
(* 00:00; a calendar date is a number of days since 1970-01-01.  Decimal   *)
(* numbers read from the file carry one decimal digit and are held in      *)
(* tenths; sales is therefore held in hundredths.  A mean is the pair      *)
(* [sum, n] (n = 0 is NaN).  The pandas calls are modelled with the        *)
(* semantics of pandas 1.x, for which the script was written: there        *)
(* np.timedelta64(1, "M") is the mean Gregorian month of 2629746 seconds.  *)
(***************************************************************************)
EXTENDS Integers, Sequences, FiniteSets, TLC

VARIABLES
    header,            \* the column names of the CSV file, as written in it
    raw,               \* the data rows of the CSV file (cells as read)
    status,            \* "start" | "loaded" | "ValueError" | "KeyError"
    df,                \* the canonical dataset returned by load_data
    categories,        \* sidebar multiselect: categories
    regions,           \* sidebar multiselect: regions
    payments,          \* sidebar multiselect: payment methods
    date_range,        \* sidebar date_input: <<start, end>>
    analysis_section,  \* sidebar radio
    df_filtered,       \* the filtered view of this run
    result             \* what the selected section computed in this run

vars == <<header, raw, status, df, categories, regions, payments, date_range,
          analysis_section, df_filtered, result>>

(***************************************************************************)
(* Small helpers on sets and sequences.  Intermediate values are passed as *)
(* operator parameters throughout.                                         *)
(***************************************************************************)
RECURSIVE SumOver(_, _)
SumStep(S, f, x) == f[x] + SumOver(S \ {x}, f)
\* The sum of f over the set S.
SumOver(S, f) == IF S = {} THEN 0 ELSE SumStep(S, f, CHOOSE y \in S : TRUE)

\* The column col of a frame, by row position.
Column(frame, col) == [i \in DOMAIN frame |-> frame[i][col]]

\* The sum of column col over the rows of a frame.
ColSum(frame, col) == SumOver(DOMAIN frame, Column(frame, col))

SetMin(S) == CHOOSE x \in S : \A y \in S : x <= y
SetMax(S) == CHOOSE x \in S : \A y \in S : y <= x

\* frame[mask]: the rows of a frame that satisfy a boolean mask, in order.
RECURSIVE Mask(_, _)
Mask(frame, keep) ==
    IF frame = <<>> THEN <<>>
    ELSE (IF Head(keep) THEN <<Head(frame)>> ELSE <<>>)
             \o Mask(Tail(frame), Tail(keep))

\* Series.head(n)
SeqHead(s, n) == SubSeq(s, 1, IF Len(s) < n THEN Len(s) ELSE n)

(***************************************************************************)
(* The proleptic Gregorian calendar behind pandas' Timestamp and Period.   *)
(***************************************************************************)
DaysFromEra(era, yoe, doy) ==
    era * 146097 + yoe * 365 + yoe \div 4 - yoe \div 100 + doy - 719468

DaysFromShifted(yy, mp, d) ==
    DaysFromEra(yy \div 400, yy % 400, (153 * mp + 2) \div 5 + d - 1)

\* Days from 1970-01-01 to the civil date y-m-d (the year starts in March).
DaysFromCivil(y, m, d) ==
    DaysFromShifted(IF m <= 2 THEN y - 1 ELSE y,
                    IF m > 2 THEN m - 3 ELSE m + 9, d)

CivilFromMp(era, yoe, doy, mp) ==
    [y |-> yoe + era * 400 + (IF mp >= 10 THEN 1 ELSE 0),
     m |-> IF mp < 10 THEN mp + 3 ELSE mp - 9,
     d |-> doy - (153 * mp + 2) \div 5 + 1]

CivilFromDoy(era, yoe, doy) == CivilFromMp(era, yoe, doy, (5 * doy + 2) \div 153)

CivilFromYoe(era, doe, yoe) ==
    CivilFromDoy(era, yoe, doe - (365 * yoe + yoe \div 4 - yoe \div 100))

CivilFromDoe(era, doe) ==
    CivilFromYoe(era, doe,
        (doe - doe \div 1460 + doe \div 36524 - doe \div 146096) \div 365)

\* The civil date [y, m, d] of a day number.
CivilFromDays(z) ==
    CivilFromDoe((z + 719468) \div 146097, (z + 719468) % 146097)

\* Series.dt.date: the calendar date of a timestamp, time of day dropped.
DtDate(ts) == ts \div 24

FirstOfMonth(c) == DaysFromCivil(c.y, c.m, 1)

\* Series.dt.to_period("M").dt.to_timestamp(): the first day of the month.
MonthStart(ts) == FirstOfMonth(CivilFromDays(DtDate(ts)))

WeekStartOfDay(day) == day - ((day + 3) % 7)

\* Series.dt.to_period("W").dt.start_time: the Monday of the week
\* (1970-01-01 was a Thursday).
WeekStart(ts) == WeekStartOfDay(DtDate(ts))

\* A timestamp as read_csv(parse_dates=...) parses it from "y-m-d h:00".
Timestamp(y, m, d, h) == DaysFromCivil(y, m, d) * 24 + h

(***************************************************************************)
(* Column names.  A name is a sequence of one-character strings, so that   *)
(* str.strip() and str.lower() act on it as they do in Python.             *)
(***************************************************************************)
LowerLetters == <<"a", "c", "d", "e", "g", "i", "m", "n", "o", "p", "q", "r",
                  "s", "t", "u", "y">>
UpperLetters == <<"A", "C", "D", "E", "G", "I", "M", "N", "O", "P", "Q", "R",
                  "S", "T", "U", "Y">>

\* str.lower() on one character.
LowerChar(c) ==
    IF \E k \in DOMAIN UpperLetters : UpperLetters[k] = c
    THEN LowerLetters[CHOOSE k \in DOMAIN UpperLetters : UpperLetters[k] = c]
    ELSE c

StrLower(name) == [k \in DOMAIN name |-> LowerChar(name[k])]

RECURSIVE LStrip(_)
LStrip(name) ==
    IF name # <<>> /\ Head(name) = " " THEN LStrip(Tail(name)) ELSE name

RECURSIVE RStrip(_)
RStrip(name) ==
    IF name # <<>> /\ name[Len(name)] = " "
    THEN RStrip(SubSeq(name, 1, Len(name) - 1)) ELSE name

StrStrip(name) == RStrip(LStrip(name))

col_order_date     == <<"o", "r", "d", "e", "r", "_", "d", "a", "t", "e">>
col_order_id       == <<"o", "r", "d", "e", "r", "_", "i", "d">>
col_customer_id    == <<"c", "u", "s", "t", "o", "m", "e", "r", "_", "i", "d">>
col_category       == <<"c", "a", "t", "e", "g", "o", "r", "y">>
col_region         == <<"r", "e", "g", "i", "o", "n">>
col_payment_method == <<"p", "a", "y", "m", "e", "n", "t", "_", "m", "e", "t",
                        "h", "o", "d">>
col_quantity       == <<"q", "u", "a", "n", "t", "i", "t", "y">>
col_price          == <<"p", "r", "i", "c", "e">>
col_discount       == <<"d", "i", "s", "c", "o", "u", "n", "t">>

\* The nine columns the script reads, in the order of the file.
RequiredColumns ==
    <<col_order_date, col_order_id, col_customer_id, col_category, col_region,
      col_payment_method, col_quantity, col_price, col_discount>>

(***************************************************************************)
(* Cells and numeric coercion.  A cell of a numeric column is one of: an   *)
(* empty cell, a text that is no number, or a decimal literal with one     *)
(* decimal digit.  A float is [nan, v] with v in tenths.                   *)
(***************************************************************************)
MissingCell == [kind |-> "missing", neg |-> FALSE, whole |-> 0, tenths |-> 0]
TextCell    == [kind |-> "text", neg |-> FALSE, whole |-> 0, tenths |-> 0]
NumCell(neg, whole, tenths) ==
    [kind |-> "num", neg |-> neg, whole |-> whole, tenths |-> tenths]
IntCell(n) == NumCell(n < 0, IF n < 0 THEN -n ELSE n, 0)

NaN == [nan |-> TRUE, v |-> 0]
Val(x) == [nan |-> FALSE, v |-> x]

\* pd.to_numeric(column, errors="coerce"): the number, NaN for the rest.
ToNumeric(cell) ==
    IF cell.kind = "num"
    THEN Val((IF cell.neg THEN -1 ELSE 1) * (cell.whole * 10 + cell.tenths))
    ELSE NaN

\* Series.fillna(0)
FillNa0(x) == IF x.nan THEN Val(0) ELSE x

AsTypeIntFloor(x) == x.v \div 10

\* Series.astype(int) on a finite float: truncation toward zero.
AsTypeInt(x) ==
    IF x.v >= 0 THEN x.v \div 10 ELSE -((-x.v) \div 10)

\* Line 17: the normalized quantity of a cell.
Quantity(cell) == AsTypeInt(FillNa0(ToNumeric(cell)))

\* Lines 18-19: the normalized price or discount of a cell, in tenths.
FloatColumn(cell) == FillNa0(ToNumeric(cell)).v

(***************************************************************************)
(* load_data                                                               *)
(***************************************************************************)
\* Line 14: df.columns.str.strip().str.lower()
NormalizeColumns(cols) == [k \in DOMAIN cols |-> StrLower(StrStrip(cols[k]))]

HasColumn(cols, name) == \E k \in DOMAIN cols : cols[k] = name

\* Lines 22-25 on one row: the derived columns.  index is the row's label in
\* the RangeIndex read_csv gives the frame.
DerivedRow(r, i, q, p, d) ==
    [index          |-> i - 1,
     order_id       |-> r.order_id,
     customer_id    |-> r.customer_id,
     category       |-> r.category,
     region         |-> r.region,
     payment_method |-> r.payment_method,
     order_date     |-> r.order_date,
     quantity       |-> q,
     price          |-> p,
     discount       |-> d,
     sales          |-> q * p * (10 - d),
     order_month    |-> MonthStart(r.order_date),
     order_day      |-> DtDate(r.order_date),
     order_week     |-> WeekStart(r.order_date)]

\* Lines 17-25 on one row: coercion, then the derived columns.
DeriveRow(r, i) ==
    DerivedRow(r, i, Quantity(r.quantity), FloatColumn(r.price),
               FloatColumn(r.discount))

\* Line 13: read_csv looks the parse_dates column up among the names as they
\* are written in the file.
ParseDatesLookup(cols) == HasColumn(cols, col_order_date)

\* Lines 17-26, on the normalized column names.
LoadNormalized(norm, rows) ==
    IF \/ ~HasColumn(norm, col_quantity)
       \/ ~HasColumn(norm, col_price)
       \/ ~HasColumn(norm, col_discount)
    THEN [status |-> "KeyError", df |-> <<>>]
    ELSE [status |-> "loaded",
          df |-> [i \in DOMAIN rows |-> DeriveRow(rows[i], i)]]

\* load_data: [status, df].
load_data(cols, rows) ==
    IF ~ParseDatesLookup(cols)
    THEN [status |-> "ValueError", df |-> <<>>]
    ELSE LoadNormalized(NormalizeColumns(cols), rows)

(***************************************************************************)
(* The filter (lines 66-72).                                               *)
(***************************************************************************)
ApplyFilterTimestamps(d, cats, regs, pays, dr) ==
    Mask(d, [i \in DOMAIN d |->
                /\ d[i].category \in cats
                /\ d[i].region \in regs
                /\ d[i].payment_method \in pays
                /\ d[i].order_date >= dr[1] * 24
                /\ d[i].order_date <= dr[2] * 24])

ApplyFilter(d, cats, regs, pays, dr) ==
    Mask(d, [i \in DOMAIN d |->
                /\ d[i].category \in cats
                /\ d[i].region \in regs
                /\ d[i].payment_method \in pays
                /\ DtDate(d[i].order_date) >= dr[1]
                /\ DtDate(d[i].order_date) <= dr[2]])

(***************************************************************************)
(* pandas building blocks.                                                 *)
(***************************************************************************)
\* Series.unique() / the keys of a groupby, as a set.
Unique(frame, col) == {frame[i][col] : i \in DOMAIN frame}

\* The rows of a frame whose column col holds k.
RowsWhere(frame, col, k) == {i \in DOMAIN frame : frame[i][col] = k}

\* frame.groupby(key)[val].sum()
GroupSum(frame, key, val) ==
    [k \in Unique(frame, key) |->
        SumOver(RowsWhere(frame, key, k), Column(frame, val))]

\* frame.groupby(key)[val].nunique()
GroupNUnique(frame, key, val) ==
    [k \in Unique(frame, key) |->
        Cardinality({frame[i][val] : i \in RowsWhere(frame, key, k)})]

RECURSIVE Ascending(_)
AscendingFrom(S, m) == <<m>> \o Ascending(S \ {m})
\* The integer keys of a groupby in the order groupby leaves them: ascending.
Ascending(S) == IF S = {} THEN <<>> ELSE AscendingFrom(S, SetMin(S))

\* The names of the model's categories, in lexicographic order.
CategoryNames == <<"X", "Y", "Z">>

CategoryRank(c) == CHOOSE k \in DOMAIN CategoryNames : CategoryNames[k] = c
CategoryNamesAt(ranks) == [k \in DOMAIN ranks |-> CategoryNames[ranks[k]]]

\* The category keys of a groupby in the order groupby leaves them.
CategoryKeys(S) == CategoryNamesAt(Ascending({CategoryRank(c) : c \in S}))

SortValuesAscending(val, tie) ==
    [p \in DOMAIN val |->
        CHOOSE i \in DOMAIN val :
            p = 1 + Cardinality({j \in DOMAIN val :
                        \/ val[j] < val[i]
                        \/ val[j] = val[i] /\ tie[j] < tie[i]})]

\* sort_values(ascending=False) of the values val (a sequence), as the
\* sequence of the positions it returns.  The default kind is "quicksort",
\* which promises nothing about the order of equal values: tie[i] is the
\* rank the sort gives position i among the values equal to val[i].
SortValuesDescending(val, tie) ==
    [p \in DOMAIN val |->
        CHOOSE i \in DOMAIN val :
            p = 1 + Cardinality({j \in DOMAIN val :
                        \/ val[j] > val[i]
                        \/ val[j] = val[i] /\ tie[j] < tie[i]})]

(***************************************************************************)
(* KPIs (lines 97-101).                                                    *)
(***************************************************************************)
Quotient(num, den) == [num |-> num, den |-> den]
Repeaters(per) == Cardinality({c \in DOMAIN per : per[c] > 1})

RepeatRateNoFloor(view) ==
    Quotient(Repeaters(GroupNUnique(view, "customer_id", "order_id")),
             Cardinality(Unique(view, "customer_id")))

RepeatRateOf(per, unique_customers) ==
    Quotient(Repeaters(per), IF unique_customers > 1 THEN unique_customers ELSE 1)

\* Line 101: the quotient num / den (den = 0 would make it NaN).
RepeatRate(view) ==
    RepeatRateOf(GroupNUnique(view, "customer_id", "order_id"),
                 Cardinality(Unique(view, "customer_id")))

\* Series.mean() of a grouped series: [sum, n]; n = 0 is NaN.
MeanOf(g) == [sum |-> SumOver(DOMAIN g, g), n |-> Cardinality(DOMAIN g)]

KPIs(view) ==
    [total_orders     |-> Cardinality(Unique(view, "order_id")),
     total_revenue    |-> ColSum(view, "sales"),
     aov              |-> MeanOf(GroupSum(view, "order_id", "sales")),
     unique_customers |-> Cardinality(Unique(view, "customer_id")),
     repeat_rate      |-> RepeatRate(view)]

(***************************************************************************)
(* Revenue heatmap (line 113).                                             *)
(***************************************************************************)
PivotRows(view, r, c) ==
    {i \in DOMAIN view : view[i].region = r /\ view[i].category = c}

Table(idx, cols, cell) == [index |-> idx, columns |-> cols, cell |-> cell]

CellNoFill(view, rows) ==
    IF rows = {} THEN NaN ELSE Val(SumOver(rows, Column(view, "sales")))

PivotNoFillOf(view, idx, cols) ==
    Table(idx, cols,
          [p \in idx \X cols |-> CellNoFill(view, PivotRows(view, p[1], p[2]))])

PivotNoFill(view) ==
    PivotNoFillOf(view, Unique(view, "region"), Unique(view, "category"))

\* A cell of the pivot: the sum of the group, fill_value for a missing group.
CellFilled(view, rows) ==
    IF rows = {} THEN Val(0) ELSE Val(SumOver(rows, Column(view, "sales")))

PivotOf(view, idx, cols) ==
    Table(idx, cols,
          [p \in idx \X cols |-> CellFilled(view, PivotRows(view, p[1], p[2]))])

\* pivot_table(values="sales", index="region", columns="category",
\*             aggfunc="sum", fill_value=0)
Pivot(view) == PivotOf(view, Unique(view, "region"), Unique(view, "category"))

(***************************************************************************)
(* Time series (lines 124-135).                                            *)
(***************************************************************************)
MonthNumber(c) == 12 * c.y + c.m - 1

\* The calendar month of a timestamp, as 12 * year + (month - 1).
MonthIndex(ts) == MonthNumber(CivilFromDays(DtDate(ts)))

Months(view) == {MonthIndex(view[i].order_date) : i \in DOMAIN view}

\* The sum of sales over the rows of calendar month m.
MonthSum(view, m) ==
    SumOver({i \in DOMAIN view : MonthIndex(view[i].order_date) = m},
            Column(view, "sales"))

MonthlySeries(start, values) == [start |-> start, values |-> values]

MonthlyAt(view, keys) ==
    MonthlySeries(IF keys = <<>> THEN 0 ELSE keys[1],
                  [k \in DOMAIN keys |-> MonthSum(view, keys[k])])

MonthlyNoGaps(view) == MonthlyAt(view, Ascending(Months(view)))

MonthlyOf(view, first, last) ==
    MonthlySeries(first,
                  [k \in 1..(last - first + 1) |-> MonthSum(view, first + k - 1)])

\* Line 134: set_index("order_date").resample("M")["sales"].sum(): one bin for
\* every calendar month from the first to the last of the view; the sum of an
\* empty bin is 0.  start is the month of values[1].
Monthly(view) ==
    IF view = <<>> THEN MonthlySeries(0, <<>>)
    ELSE MonthlyOf(view, SetMin(Months(view)), SetMax(Months(view)))

RollingWindow == 3
MinPeriods == 1

RollingAt(values, k, lo) ==
    IF k - lo + 1 < MinPeriods THEN [sum |-> 0, n |-> 0]
    ELSE [sum |-> SumOver(lo..k, values), n |-> k - lo + 1]

\* Line 135: rolling(3, min_periods=1).mean(), each mean as [sum, n]; n = 0 is
\* NaN (fewer than min_periods values in the window).
Rolling(values) ==
    [k \in DOMAIN values |->
        RollingAt(values, k,
                  IF k - RollingWindow + 1 > 1 THEN k - RollingWindow + 1 ELSE 1)]

TimeSeriesOf(view, monthly) ==
    [daily           |-> GroupSum(view, "order_day", "sales"),
     weekly          |-> GroupSum(view, "order_week", "sales"),
     monthly         |-> monthly,
     monthly_rolling |-> Rolling(monthly.values)]

TimeSeries(view) == TimeSeriesOf(view, Monthly(view))

(***************************************************************************)
(* Top customers (line 147) and category summary (lines 156-162).          *)
(***************************************************************************)
TopN == 20

Reordered(keys, g, order) ==
    [p \in DOMAIN order |->
        [customer_id |-> keys[order[p]], sales |-> g[keys[order[p]]]]]

SortedSeries(keys, g, tie) ==
    Reordered(keys, g,
              SortValuesDescending([k \in DOMAIN keys |-> g[keys[k]]], tie))

\* Line 147: groupby("customer_id")["sales"].sum()
\*               .sort_values(ascending=False).head(20)
cust_rev(view, tie) ==
    SeqHead(SortedSeries(Ascending(Unique(view, "customer_id")),
                         GroupSum(view, "customer_id", "sales"), tie),
            TopN)

CategoryAggOf(view, c, rows) ==
    [category      |-> c,
     total_revenue |-> SumOver(rows, Column(view, "sales")),
     avg_price     |-> [sum |-> SumOver(rows, Column(view, "price")),
                        n   |-> Cardinality(rows)],
     avg_discount  |-> [sum |-> SumOver(rows, Column(view, "discount")),
                        n   |-> Cardinality(rows)],
     total_qty     |-> SumOver(rows, Column(view, "quantity")),
     orders        |-> Cardinality({view[i].order_id : i \in rows})]

CategoryAggs(view, keys) ==
    [k \in DOMAIN keys |->
        CategoryAggOf(view, keys[k], RowsWhere(view, "category", keys[k]))]

ReorderedRows(agg, order) == [p \in DOMAIN order |-> agg[order[p]]]

SortedByRevenue(agg, tie) ==
    ReorderedRows(agg,
        SortValuesDescending([k \in DOMAIN agg |-> agg[k].total_revenue], tie))

\* Lines 156-162: groupby("category").agg(...)
\*                    .sort_values("total_revenue", ascending=False)
cat_summary(view, tie) ==
    SortedByRevenue(CategoryAggs(view, CategoryKeys(Unique(view, "category"))),
                    tie)

(***************************************************************************)
(* Cohort retention (lines 178-181).                                       *)
(***************************************************************************)
\* np.timedelta64(1, "M") in seconds, and a day in seconds.
SecondsPerMonth == 2629746
SecondsPerDay == 86400

\* a / b rounded to the nearest integer (Series.round(); a tie is impossible
\* here, b being even and the numerators multiples of 86400).
RoundDiv(a, b) ==
    IF a >= 0 THEN (2 * a + b) \div (2 * b) ELSE -((2 * (-a) + b) \div (2 * b))

MonthsSinceFirstTruncated(order_month, first_order_month) ==
    ((order_month - first_order_month) * SecondsPerDay) \div SecondsPerMonth

\* Line 180, for two month starts given as day numbers.
MonthsSinceFirst(order_month, first_order_month) ==
    RoundDiv((order_month - first_order_month) * SecondsPerDay, SecondsPerMonth)

\* groupby("customer_id")["order_date"].min(), as the first day of its month.
FirstMonthIn(frame, c) ==
    MonthStart(SetMin({frame[i].order_date :
                          i \in RowsWhere(frame, "customer_id", c)}))

FirstPurchaseOfDataset(view) ==
    [c \in Unique(view, "customer_id") |-> FirstMonthIn(df, c)]

\* Line 178: each customer's first order month within the view.
first_purchase(view) ==
    [c \in Unique(view, "customer_id") |-> FirstMonthIn(view, c)]

CustRow(r, first_order_month) ==
    [customer_id        |-> r.customer_id,
     order_id           |-> r.order_id,
     order_month        |-> r.order_month,
     first_order_month  |-> first_order_month,
     months_since_first |-> MonthsSinceFirst(r.order_month, first_order_month)]

CustOf(view, first) ==
    {CustRow(view[i], first[view[i].customer_id]) : i \in DOMAIN view}

\* Lines 179-180: the distinct (customer, order, month) rows, merged with
\* first_purchase, with months_since_first.
cust(view) == CustOf(view, first_purchase(view))

CohortCell(c, m, k) ==
    Cardinality({r.customer_id : r \in
        {x \in c : x.first_order_month = m /\ x.months_since_first = k}})

CohortTable(c, idx, cols) ==
    Table(idx, cols, [p \in idx \X cols |-> CohortCell(c, p[1], p[2])])

CohortOf(c) ==
    CohortTable(c, {r.first_order_month : r \in c},
                {r.months_since_first : r \in c})

\* Line 181: pivot_table(..., aggfunc="nunique").fillna(0).astype(int)
cohort(view) == CohortOf(cust(view))

(***************************************************************************)
(* One run of the script (lines 45-192).                                   *)
(***************************************************************************)
Sections ==
    {"Descriptive Analysis", "KPIs", "Revenue Heatmap", "Time Series Analysis",
     "Top Customers", "Category Summary", "Payment Methods",
     "Customer Retention (Cohorts)", "Recommendations"}

\* The longest series for which every order of equal values is explored.
MaxPerm == 3

\* The orders a sort may leave n equal values in: every one for a short
\* series; for a longer one the original order and its reverse.
TieOrders(n) ==
    IF n <= MaxPerm
    THEN {t \in [1..n -> 1..n] : \A i, j \in 1..n : i # j => t[i] # t[j]}
    ELSE {[i \in 1..n |-> i], [i \in 1..n |-> n + 1 - i]}

\* The choices the sorting of a section leaves open, for the groups of d.
TieChoices(sec, d) ==
    CASE sec = "Top Customers" ->
            TieOrders(Cardinality(Unique(d, "customer_id")))
      [] sec = "Category Summary" ->
            TieOrders(Cardinality(Unique(d, "category")))
      [] OTHER -> {<<>>}

\* The if / elif chain of lines 77-192.
SectionResult(sec, view, tie) ==
    CASE sec = "Descriptive Analysis" ->
            [section |-> sec, shape |-> Len(view), head |-> SeqHead(view, 10)]
      [] sec = "KPIs" ->
            [section |-> sec, kpis |-> KPIs(view)]
      [] sec = "Revenue Heatmap" ->
            [section |-> sec, pivot |-> Pivot(view)]
      [] sec = "Time Series Analysis" ->
            [section |-> sec, series |-> TimeSeries(view)]
      [] sec = "Top Customers" ->
            [section |-> sec, cust_rev |-> cust_rev(view, tie)]
      [] sec = "Category Summary" ->
            [section |-> sec, cat_summary |-> cat_summary(view, tie)]
      [] sec = "Payment Methods" ->
            [section |-> sec, shares |-> GroupSum(view, "payment_method", "sales")]
      [] sec = "Customer Retention (Cohorts)" ->
            [section |-> sec, cohort |-> cohort(view)]
      [] OTHER ->
            [section |-> sec]

\* What a run leaves: d (no statement of the script assigns to df or to one
\* of its columns), the new frame df_filtered, and the section's result.
RunOn(d, view, sec, tie) ==
    [df |-> d, df_filtered |-> view, result |-> SectionResult(sec, view, tie)]

RunInPlace(view, sec, tie) == RunOn(view, view, sec, tie)

ScriptRunInPlace(d, cats, regs, pays, dr, sec, tie) ==
    RunInPlace(ApplyFilter(d, cats, regs, pays, dr), sec, tie)

\* Lines 45-192 with the widgets at cats, regs, pays, dr and sec.
ScriptRun(d, cats, regs, pays, dr, sec, tie) ==
    RunOn(d, ApplyFilter(d, cats, regs, pays, dr), sec, tie)

(***************************************************************************)
(* Actions: a widget changes and the script runs again.                    *)
(***************************************************************************)
Rerun(cats, regs, pays, dr, sec) ==
    /\ status = "loaded"
    /\ \E tie \in TieChoices(sec, df) :
          \E run \in {ScriptRun(df, cats, regs, pays, dr, sec, tie)} :
             /\ df' = run.df
             /\ df_filtered' = run.df_filtered
             /\ result' = run.result
    /\ categories' = cats
    /\ regions' = regs
    /\ payments' = pays
    /\ date_range' = dr
    /\ analysis_section' = sec
    /\ UNCHANGED <<header, raw, status>>

\* Line 45: the category multiselect.
SetCategories ==
    \E cats \in SUBSET Unique(df, "category") :
        /\ cats # categories
        /\ Rerun(cats, regions, payments, date_range, analysis_section)

\* Line 46: the region multiselect.
SetRegions ==
    \E regs \in SUBSET Unique(df, "region") :
        /\ regs # regions
        /\ Rerun(categories, regs, payments, date_range, analysis_section)

\* Line 47: the payment-method multiselect.
SetPayments ==
    \E pays \in SUBSET Unique(df, "payment_method") :
        /\ pays # payments
        /\ Rerun(categories, regions, pays, date_range, analysis_section)

\* How many days before the first and after the last order date the date
\* picker is moved.
DateSlack == 1

\* Line 48: the date range picker (start <= end).
SetDateRange ==
    /\ df # <<>>
    /\ \E a \in (SetMin(Unique(df, "order_day")) - DateSlack)
                    ..(SetMax(Unique(df, "order_day")) + DateSlack) :
          \E b \in a..(SetMax(Unique(df, "order_day")) + DateSlack) :
             /\ <<a, b>> # date_range
             /\ Rerun(categories, regions, payments, <<a, b>>, analysis_section)

\* Lines 50-63: the section radio.
SelectSection(sec) ==
    /\ sec # analysis_section
    /\ Rerun(categories, regions, payments, date_range, sec)

\* Line 28: load_data on the file.
LoadData ==
    /\ status = "start"
    /\ \E r \in {load_data(header, raw)} :
          /\ status' = r.status
          /\ df' = r.df
    /\ UNCHANGED <<header, raw, categories, regions, payments, date_range,
                   analysis_section, df_filtered, result>>

(***************************************************************************)
(* Initial states.                                                         *)
(***************************************************************************)
\* The state after the first run of the script on a well-formed file: the
\* widgets hold their defaults (every value, the full date range, the first
\* section).
InitLoaded(files) ==
    /\ header = RequiredColumns
    /\ raw \in files
    /\ status = "loaded"
    /\ df = load_data(header, raw).df
    /\ categories = Unique(df, "category")
    /\ regions = Unique(df, "region")
    /\ payments = Unique(df, "payment_method")
    /\ date_range = <<SetMin(Unique(df, "order_day")), SetMax(Unique(df, "order_day"))>>
    /\ analysis_section = "Descriptive Analysis"
    /\ \E run \in {ScriptRun(df, categories, regions, payments, date_range,
                             analysis_section, <<>>)} :
          /\ df_filtered = run.df_filtered
          /\ result = run.result

\* The state before load_data is called on a file.
InitStart(headers, files) ==
    /\ header \in headers
    /\ raw \in files
    /\ status = "start"
    /\ df = <<>>
    /\ categories = {}
    /\ regions = {}
    /\ payments = {}
    /\ date_range = <<0, 0>>
    /\ analysis_section = "Descriptive Analysis"
    /\ df_filtered = <<>>
    /\ result = [section |-> "none"]

\* A data row of a file.
FileRow(oid, cid, cat, reg, pay, ts, q, p, d) ==
    [order_id |-> oid, customer_id |-> cid, category |-> cat, region |-> reg,
     payment_method |-> pay, order_date |-> ts, quantity |-> q, price |-> p,
     discount |-> d]

(***************************************************************************)
(* Spec: two-row files that vary in every filtered column; every widget.   *)
(***************************************************************************)
MainRow1 ==
    FileRow(1, 1, "X", "N", "card", Timestamp(2024, 1, 31, 13),
            IntCell(2), IntCell(10), IntCell(0))

MainRows2 ==
    {FileRow(2, 1, cat, reg, pay, ts, IntCell(1), IntCell(10), NumCell(FALSE, 0, 5)) :
        cat \in {"X", "Y"}, reg \in {"N", "S"}, pay \in {"card", "cash"},
        ts \in {Timestamp(2024, 1, 31, 0), Timestamp(2024, 1, 31, 13),
                Timestamp(2024, 2, 1, 9)}}

MainFiles == {<<MainRow1>>} \cup {<<MainRow1, r>> : r \in MainRows2}

Init == InitLoaded(MainFiles)

Next ==
    \/ SetCategories
    \/ SetRegions
    \/ SetPayments
    \/ SetDateRange
    \/ \E sec \in Sections : SelectSection(sec)

Spec == Init /\ [][Next]_vars

(***************************************************************************)
(* SpecHeader: load_data on files whose column names are written in        *)
(* another letter case, padded with a blank, or left out.                  *)
(***************************************************************************)
\* str.upper() on one character.
UpperChar(c) ==
    IF \E k \in DOMAIN LowerLetters : LowerLetters[k] = c
    THEN UpperLetters[CHOOSE k \in DOMAIN LowerLetters : LowerLetters[k] = c]
    ELSE c

Variants == {"exact", "capitalized", "upper", "padded left", "padded right", "absent"}

\* A column name as one file writes it; the empty name stands for a column
\* the file does not have.
Written(name, v) ==
    CASE v = "exact"        -> name
      [] v = "capitalized"  -> <<UpperChar(Head(name))>> \o Tail(name)
      [] v = "upper"        -> [k \in DOMAIN name |-> UpperChar(name[k])]
      [] v = "padded left"  -> <<" ">> \o name
      [] v = "padded right" -> name \o <<" ">>
      [] OTHER              -> <<>>

IsWritten(name) == name # <<>>

\* The header in which column i is written as variant vi and column j as vj,
\* and every other column exactly.
HeaderWith(i, vi, j, vj) ==
    SelectSeq([k \in DOMAIN RequiredColumns |->
                  Written(RequiredColumns[k],
                          IF k = i THEN vi ELSE IF k = j THEN vj ELSE "exact")],
              IsWritten)

Headers ==
    {HeaderWith(i, vi, j, vj) :
        i \in DOMAIN RequiredColumns, vi \in Variants,
        j \in DOMAIN RequiredColumns, vj \in Variants}

InitHeader == InitStart(Headers, {<<>>})

NextHeader == LoadData

SpecHeader == InitHeader /\ [][NextHeader]_vars

(***************************************************************************)
(* SpecQty: load_data on files whose quantity cells are empty, text, or    *)
(* decimal literals.                                                       *)
(***************************************************************************)
\* The largest integer part of a quantity literal.
MaxWhole == 2

QtyCells ==
    {MissingCell, TextCell}
        \cup {NumCell(neg, w, t) : neg \in BOOLEAN, w \in 0..MaxWhole, t \in 0..9}

QtyRow(i, cell) ==
    FileRow(i, 1, "X", "N", "card", Timestamp(2024, 1, 5, 0),
            cell, IntCell(10), IntCell(0))

QtyFiles ==
    {<<QtyRow(1, c)>> : c \in QtyCells}
        \cup {<<QtyRow(1, c), QtyRow(2, c2)>> :
                 c \in QtyCells, c2 \in {MissingCell, NumCell(FALSE, 2, 7)}}

InitQty == InitStart({RequiredColumns}, QtyFiles)

NextQty == LoadData

SpecQty == InitQty /\ [][NextQty]_vars

(***************************************************************************)
(* SpecTop: files with up to MaxCust customers whose sales tie.            *)
(***************************************************************************)
\* The largest number of rows (and of customers) of a file of SpecTop.
MaxCust == 22

\* Row i belongs to customer ceil(i / c) and sells (a * i + b) mod m units
\* at 1.0; its category alternates.
TopFile(n, a, b, m, c) ==
    [i \in 1..n |->
        FileRow(i, (i + c - 1) \div c, IF i % 2 = 0 THEN "X" ELSE "Y", "N", "card",
                Timestamp(2024, 3, 5, 0), IntCell((a * i + b) % m), IntCell(1),
                IntCell(0))]

TopFiles ==
    {TopFile(n, a, b, m, c) :
        n \in 1..MaxCust, a \in {1, 2}, b \in {0, 1}, m \in {2, 3}, c \in {1, 2}}

InitTop == InitLoaded(TopFiles)

NextTop ==
    \/ SetCategories
    \/ SelectSection("Top Customers")

SpecTop == InitTop /\ [][NextTop]_vars

(***************************************************************************)
(* SpecCohort: files of one or two customers ordering in several months.   *)
(***************************************************************************)
\* The year of month 0 of the files of SpecCohort and SpecMonthly.
BaseYear == 2023
\* The latest month of an order in the three-row files of SpecCohort.
MaxCohortMonth == 2
\* The latest month of an order in the two-row files of SpecCohort.
MaxMonthSpan == 40

\* An order on the 5th of the month that lies k months after January of
\* BaseYear.
MonthTimestamp(k) == Timestamp(BaseYear + (k \div 12), (k % 12) + 1, 5, 0)

CohortRow(i, cid, cat, k) ==
    FileRow(i, cid, cat, "N", "card", MonthTimestamp(k),
            IntCell(1), IntCell(1), IntCell(0))

CohortRows(i) ==
    {CohortRow(i, cid, cat, k) :
        cid \in {1, 2}, cat \in {"X", "Y"}, k \in 0..MaxCohortMonth}

CohortFiles ==
    {<<r1, r2, r3>> : r1 \in CohortRows(1), r2 \in CohortRows(2), r3 \in CohortRows(3)}
        \cup {<<CohortRow(1, 1, "X", a), CohortRow(2, 1, cat, b)>> :
                 a \in 0..MaxMonthSpan, b \in 0..MaxMonthSpan, cat \in {"X", "Y"}}

InitCohort == InitLoaded(CohortFiles)

NextCohort ==
    \/ SetCategories
    \/ SelectSection("Customer Retention (Cohorts)")

SpecCohort == InitCohort /\ [][NextCohort]_vars

(***************************************************************************)
(* SpecMonthly: three-row files whose months leave gaps.                   *)
(***************************************************************************)
\* The latest month of an order in the files of SpecMonthly.
MaxGap == 4

MonthlyRows(i) ==
    {FileRow(i, 1, cat, "N", "card", MonthTimestamp(k),
             IntCell(i), IntCell(1), IntCell(0)) :
        cat \in {"X", "Y"}, k \in 0..MaxGap}

MonthlyFiles ==
    {<<r1, r2, r3>> : r1 \in MonthlyRows(1), r2 \in MonthlyRows(2), r3 \in MonthlyRows(3)}
        \cup {<<r1, r2>> : r1 \in MonthlyRows(1), r2 \in MonthlyRows(2)}

InitMonthly == InitLoaded(MonthlyFiles)

NextMonthly ==
    \/ SetCategories
    \/ SelectSection("Time Series Analysis")

SpecMonthly == InitMonthly /\ [][NextMonthly]_vars

(***************************************************************************)
(* Properties.                                                             *)
(***************************************************************************)
\* Whether the row of df with this index label is in df_filtered.
InFilteredView(r) == \E j \in DOMAIN df_filtered : df_filtered[j] = r

\* The sum of sales over the rows of the view that satisfy Test.
SalesWhere(Test(_)) == ColSum(SelectSeq(df_filtered, Test), "sales")

\* C1: a row of the dataset is in the filtered view if and only if its
\* category, its region and its payment method are among the selected ones
\* and its order date, as a calendar date, lies between date_start and
\* date_end, both included, whatever its time of day; the view holds
\* nothing else.
C1_FilterMembership ==
    /\ \A i \in DOMAIN df :
          InFilteredView(df[i]) <=>
             /\ df[i].category \in categories
             /\ df[i].region \in regions
             /\ df[i].payment_method \in payments
             /\ date_range[1] * 24 <= df[i].order_date
             /\ df[i].order_date < (date_range[2] + 1) * 24
    /\ \A j \in DOMAIN df_filtered : \E i \in DOMAIN df : df[i] = df_filtered[j]

\* C1 witness: the date range ends on a day on which a row was ordered at
\* 13:00; that row is in the view and a row of the next day is not.
C1_Witness ==
    /\ Len(df) = 2
    /\ Len(df_filtered) = 1
    /\ df_filtered[1].order_date = date_range[2] * 24 + 13
    /\ \E i \in DOMAIN df : DtDate(df[i].order_date) = date_range[2] + 1

\* C2: whatever filters and sections have been chosen, the canonical dataset
\* is still, row for row and column for column, what load_data returned.
C2_DatasetAsLoaded ==
    status = "loaded" => df = load_data(header, raw).df

\* C2 witness: the cohort section has run on a view that drops a row.
C2_Witness ==
    /\ analysis_section = "Customer Retention (Cohorts)"
    /\ result.section = "Customer Retention (Cohorts)"
    /\ Len(df) = 2
    /\ Len(df_filtered) = 1
    /\ categories # Unique(df, "category")

EmptyTable(t) == t.index = {} /\ t.columns = {} /\ DOMAIN t.cell = {}

\* C3: on an empty filtered view every section yields its default: the KPIs
\* are 0 orders, 0 revenue, 0 customers, a repeat rate of 0 over a nonzero
\* denominator and an undefined (NaN) average order value; every series,
\* the heatmap, the top-customer list, the category summary, the payment
\* shares and the cohort matrix are empty.
C3_EmptyViewDefaults ==
    (status = "loaded" /\ df_filtered = <<>>) =>
        CASE result.section = "KPIs" ->
                /\ result.kpis.total_orders = 0
                /\ result.kpis.total_revenue = 0
                /\ result.kpis.unique_customers = 0
                /\ result.kpis.repeat_rate.num = 0
                /\ result.kpis.repeat_rate.den # 0
                /\ result.kpis.aov.n = 0
          [] result.section = "Revenue Heatmap" -> EmptyTable(result.pivot)
          [] result.section = "Time Series Analysis" ->
                /\ DOMAIN result.series.daily = {}
                /\ DOMAIN result.series.weekly = {}
                /\ result.series.monthly.values = <<>>
                /\ result.series.monthly_rolling = <<>>
          [] result.section = "Top Customers" -> result.cust_rev = <<>>
          [] result.section = "Category Summary" -> result.cat_summary = <<>>
          [] result.section = "Payment Methods" -> DOMAIN result.shares = {}
          [] result.section = "Customer Retention (Cohorts)" ->
                EmptyTable(result.cohort)
          [] result.section = "Descriptive Analysis" ->
                result.shape = 0 /\ result.head = <<>>
          [] OTHER -> result.section = "Recommendations"

\* C3 witness: the KPIs have been computed on a view the filters emptied.
C3_Witness ==
    /\ df # <<>>
    /\ df_filtered = <<>>
    /\ analysis_section = "KPIs"
    /\ result.section = "KPIs"

\* C8: the heatmap has exactly one cell for every pair of a region and a
\* category observed in the view; the cell is the sum of sales of the rows
\* with that region and category, and the number 0 when there is none.
C8_HeatmapDense ==
    (status = "loaded" /\ result.section = "Revenue Heatmap") =>
        /\ result.pivot.index = {df_filtered[i].region : i \in DOMAIN df_filtered}
        /\ result.pivot.columns = {df_filtered[i].category : i \in DOMAIN df_filtered}
        /\ DOMAIN result.pivot.cell = result.pivot.index \X result.pivot.columns
        /\ \A p \in DOMAIN result.pivot.cell :
              LET Here(r) == r.region = p[1] /\ r.category = p[2]
              IN /\ ~result.pivot.cell[p].nan
                 /\ result.pivot.cell[p].v = SalesWhere(Here)

\* C8 witness: a heatmap of two regions and two categories in which two
\* combinations have no row and hold 0.
C8_Witness ==
    /\ result.section = "Revenue Heatmap"
    /\ Cardinality(result.pivot.index) = 2
    /\ Cardinality(result.pivot.columns) = 2
    /\ Cardinality({p \in DOMAIN result.pivot.cell :
                       result.pivot.cell[p] = Val(0)}) = 2
    /\ \E p \in DOMAIN result.pivot.cell : result.pivot.cell[p].v > 0

\* C4: the load succeeds exactly when each of the nine required columns is
\* present once the column names are trimmed and lower-cased.
C4_LoadsIffRequiredPresent ==
    status # "start" =>
        (status = "loaded" <=>
            \A k \in DOMAIN RequiredColumns :
                HasColumn(NormalizeColumns(header), RequiredColumns[k]))

\* The quantity the claim gives a cell: the integer for an integer literal,
\* 0 for everything else.
IntegerOrZero(cell) ==
    IF cell.kind = "num" /\ cell.tenths = 0
    THEN (IF cell.neg THEN -cell.whole ELSE cell.whole)
    ELSE 0

\* The integer part of a cell's literal (the literal cut at its decimal
\* point), 0 for an empty or non-numeric cell.
IntegerPartOrZero(cell) ==
    IF cell.kind = "num"
    THEN (IF cell.neg THEN -cell.whole ELSE cell.whole)
    ELSE 0

\* C5 as claimed: every row is kept, and its quantity is the cell's integer
\* when the cell is an integer literal and 0 otherwise (missing, text, or a
\* fractional number such as 2.7).
C5_FractionalBecomesZero ==
    status = "loaded" =>
        /\ Len(df) = Len(raw)
        /\ \A i \in DOMAIN raw : df[i].quantity = IntegerOrZero(raw[i].quantity)

\* C5 as amended: every row is kept, and its quantity is the cell's number
\* truncated toward zero when the cell is a number (2.7 gives 2, -2.7 gives
\* -2, an integer is unchanged) and 0 when it is missing or no number.
C5_QuantityTruncated ==
    status = "loaded" =>
        /\ Len(df) = Len(raw)
        /\ \A i \in DOMAIN raw : df[i].quantity = IntegerPartOrZero(raw[i].quantity)

\* C5 witness: a file with a negative fractional quantity and an empty one
\* has been loaded, both rows kept.
C5_Witness ==
    /\ status = "loaded"
    /\ Len(df) = 2
    /\ raw[1].quantity = NumCell(TRUE, 2, 7)
    /\ df[1].quantity = -2
    /\ raw[2].quantity = MissingCell
    /\ df[2].quantity = 0

\* The customers of the view and each one's summed sales.
ViewCustomers == {df_filtered[i].customer_id : i \in DOMAIN df_filtered}
CustomerSales(c) ==
    LET Mine(r) == r.customer_id = c IN SalesWhere(Mine)

\* The top-customer list has at most 20 entries, one per customer, each with
\* the customer's summed sales, in non-increasing order, and no customer left
\* out has more than one that is listed.
TopSorted(top) ==
    /\ Len(top) <= 20
    /\ Len(top) = IF Cardinality(ViewCustomers) < 20
                  THEN Cardinality(ViewCustomers) ELSE 20
    /\ \A p \in DOMAIN top :
          /\ top[p].customer_id \in ViewCustomers
          /\ top[p].sales = CustomerSales(top[p].customer_id)
    /\ \A p, q \in DOMAIN top :
          p < q => /\ top[p].sales >= top[q].sales
                   /\ top[p].customer_id # top[q].customer_id
    /\ \A c \in ViewCustomers :
          (\A p \in DOMAIN top : top[p].customer_id # c) =>
              \A p \in DOMAIN top : top[p].sales >= CustomerSales(c)

\* Customers with equal sums keep the order of the grouping, which is by
\* ascending customer_id; a customer left out does not precede, in that
\* order, a listed one with the same sum.
TopStable(top) ==
    /\ \A p, q \in DOMAIN top :
          (p < q /\ top[p].sales = top[q].sales) =>
              top[p].customer_id < top[q].customer_id
    /\ \A c \in ViewCustomers :
          (\A p \in DOMAIN top : top[p].customer_id # c) =>
              \A p \in DOMAIN top :
                  top[p].sales = CustomerSales(c) => top[p].customer_id < c

FirstMonthInView(c) ==
    SetMin({df_filtered[i].order_month :
               i \in {j \in DOMAIN df_filtered : df_filtered[j].customer_id = c}})

\* The first order month, within the dataset, of a customer.
FirstMonthInDataset(c) ==
    SetMin({df[i].order_month : i \in {j \in DOMAIN df : df[j].customer_id = c}})

\* C7: the rows of the cohort matrix are the first order months the
\* customers have within the filtered view, and each row holds at least one
\* customer in column 0.
C7_CohortMonthZero ==
    (status = "loaded" /\ result.section = "Customer Retention (Cohorts)") =>
        /\ result.cohort.index = {FirstMonthInView(c) : c \in ViewCustomers}
        /\ \A m \in result.cohort.index :
              /\ <<m, 0>> \in DOMAIN result.cohort.cell
              /\ result.cohort.cell[<<m, 0>>] >= 1

\* C7 witness: the filter has removed a customer's first order of the
\* dataset, and the cohort matrix has a row for a later month.
C7_Witness ==
    /\ result.section = "Customer Retention (Cohorts)"
    /\ \E c \in ViewCustomers :
          /\ FirstMonthInView(c) > FirstMonthInDataset(c)
          /\ FirstMonthInView(c) \in result.cohort.index
          /\ result.cohort.cell[<<FirstMonthInView(c), 0>>] >= 1

\* The calendar months from the first order of row r's customer in the view
\* to row r: 12 x the difference of the years + the difference of the months.
CalendarMonthsSinceFirst(r) ==
    MonthIndex(r.order_date)
        - SetMin({MonthIndex(df_filtered[i].order_date) :
                     i \in {j \in DOMAIN df_filtered :
                               df_filtered[j].customer_id = r.customer_id}})

\* C10: the columns of the cohort matrix are the exact numbers of calendar
\* months between each order's month and its customer's first month in the
\* view, all non-negative.
C10_MonthsSinceFirstExact ==
    (status = "loaded" /\ result.section = "Customer Retention (Cohorts)") =>
        /\ result.cohort.columns =
              {CalendarMonthsSinceFirst(df_filtered[i]) : i \in DOMAIN df_filtered}
        /\ \A k \in result.cohort.columns : k >= 0
        /\ \A i \in DOMAIN df_filtered :
              result.cohort.cell[<<FirstMonthInView(df_filtered[i].customer_id),
                                   CalendarMonthsSinceFirst(df_filtered[i])>>] >= 1

\* C10 witness: a customer ordered again more than three years after the
\* first order.
C10_Witness ==
    /\ result.section = "Customer Retention (Cohorts)"
    /\ \E k \in result.cohort.columns : k > 36

\* The sum of sales over the rows of the view ordered in calendar month m.
SalesInMonth(m) ==
    LET InMonth(r) == MonthIndex(r.order_date) = m IN SalesWhere(InMonth)

ViewMonths == {MonthIndex(df_filtered[i].order_date) : i \in DOMAIN df_filtered}

\* C9: the monthly series has one entry for every calendar month from the
\* first to the last order month of the view, 0 for a month without rows;
\* the rolling average is the first value at the first period, the mean of
\* the first two at the second and the mean of the last three afterwards.
C9_MonthlyRolling ==
    (status = "loaded" /\ result.section = "Time Series Analysis"
        /\ df_filtered # <<>>) =>
        LET v == result.series.monthly.values
            a == result.series.monthly_rolling
        IN /\ result.series.monthly.start = SetMin(ViewMonths)
           /\ Len(v) = SetMax(ViewMonths) - SetMin(ViewMonths) + 1
           /\ \A k \in DOMAIN v : v[k] = SalesInMonth(SetMin(ViewMonths) + k - 1)
           /\ DOMAIN a = DOMAIN v
           /\ \A k \in DOMAIN a :
                 /\ a[k].n > 0
                 /\ k = 1 => a[k].sum = a[k].n * v[1]
                 /\ k = 2 => 2 * a[k].sum = a[k].n * (v[1] + v[2])
                 /\ k > 2 => 3 * a[k].sum = a[k].n * (v[k - 2] + v[k - 1] + v[k])

\* C9 witness: a monthly series of at least four months with an empty month
\* in it.
C9_Witness ==
    /\ result.section = "Time Series Analysis"
    /\ Len(result.series.monthly.values) >= 4
    /\ \E k \in DOMAIN result.series.monthly.values :
          /\ result.series.monthly.values[k] = 0
          /\ (result.series.monthly.start + k - 1) \notin ViewMonths
    /\ \E k \in DOMAIN result.series.monthly_rolling :
          k > 2 /\ result.series.monthly_rolling[k].sum > 0

====
